---- MODULE Spec2Model ----
(***************************************************************************)
(* Model of mtdata/entry.py: DatasetId (validation, format, parse), Entry  *)
(* (derivation of ext/filename, archive consistency, is_swap), Experiment  *)
(* and Paper (back-reference sets).                                        *)
(*                                                                         *)
(* A Python str is a sequence of one-character strings; None is the        *)
(* empty option <<>> and a present value v is <<v>>.  The outcome of a     *)
(* call is a record [err, val]: err = "ok", or the class of the exception  *)
(* the call raised ("AssertionError" for a failed assert, "Exception" for  *)
(* raise Exception(...), "InvalidTag" for a failure of the language-tag    *)
(* service), and val the option of the constructed object.                 *)
(***************************************************************************)
EXTENDS Naturals, Sequences, FiniteSets

VARIABLES
    args,     \* the inputs of the calls under check
    pc,       \* position in the call sequence
    did,      \* outcome of DatasetId(group, name, version, langs)
    text,     \* outcome of did.format(delim)
    parsed,   \* outcome of DatasetId.parse(string, delim)
    entry,    \* outcome of Entry(did, url, ...)
    swap,     \* outcome of entry.is_swap(langs)
    exps,     \* heap of Experiment objects, by identity
    papers,   \* heap of Paper objects, by identity
    last      \* outcome of the last Experiment/Paper call

vars == <<args, pc, did, text, parsed, entry, swap, exps, papers, last>>

(***************************************************************************)
(* Bounds                                                                  *)
(***************************************************************************)
MaxFieldLen == 1   \* longest group/name/version drawn
MaxSegs == 6       \* most delimiter-separated segments of a raw string

(***************************************************************************)
(* Python str primitives                                                   *)
(***************************************************************************)
None == <<>>
Some(v) == <<v>>

StrsOver(chars, n) == UNION {[1..k -> chars] : k \in 0..n}

\* the characters str.strip() removes (of the characters drawn here)
Whitespace == {" ", "\t"}
\* str.isupper / str.islower per character, over the characters drawn here
UpperChars == {"A", "G", "N"}
LowerChars == {"a", "b", "e", "f", "g", "i", "n", "p", "r", "s", "t", "v", "x", "z"}

RECURSIVE LStrip(_)
LStrip(s) == IF s # <<>> /\ Head(s) \in Whitespace THEN LStrip(Tail(s)) ELSE s

RECURSIVE RStrip(_)
RStrip(s) ==
    IF s # <<>> /\ s[Len(s)] \in Whitespace
    THEN RStrip(SubSeq(s, 1, Len(s) - 1))
    ELSE s

\* str.strip()
Strip(s) == RStrip(LStrip(s))

\* str.startswith(p)
StartsWith(s, p) == Len(s) >= Len(p) /\ SubSeq(s, 1, Len(p)) = p

\* str.split(d) for a non-empty separator d
RECURSIVE SplitFrom(_, _, _)
SplitFrom(s, d, cur) ==
    IF s = <<>> THEN <<cur>>
    ELSE IF StartsWith(s, d)
         THEN <<cur>> \o SplitFrom(SubSeq(s, Len(d) + 1, Len(s)), d, <<>>)
         ELSE SplitFrom(Tail(s), d, Append(cur, Head(s)))

Split(s, d) == SplitFrom(s, d, <<>>)

\* d.join(parts)
RECURSIVE Join(_, _)
Join(d, parts) ==
    IF parts = <<>> THEN <<>>
    ELSE IF Len(parts) = 1 THEN parts[1]
    ELSE parts[1] \o d \o Join(d, Tail(parts))

\* ch in s
HasChar(s, ch) == \E i \in 1..Len(s) : s[i] = ch

\* str.islower(): at least one cased character and no upper-case one
IsLower(s) ==
    /\ \E i \in 1..Len(s) : s[i] \in LowerChars
    /\ \A i \in 1..Len(s) : s[i] \notin UpperChars

(***************************************************************************)
(* The language-tag service (mtdata.iso.bcp47), as the specification       *)
(* describes it: a raw string is normalised to a canonical tag or fails.   *)
(***************************************************************************)
EN == <<"e", "n">>
ENG == <<"e", "n", "g">>
FR == <<"f", "r">>
FRA == <<"f", "r", "a">>
ZZ == <<"z", "z">>

\* a Python value that is a str
PyStr(s) == [cls |-> "str", s |-> s]
\* a BCP47Tag whose str() is s
PyTag(s) == [cls |-> "BCP47Tag", s |-> s]

Bcp47Known(raw) == raw \in {EN, ENG, FR, FRA}

bcp47(raw) ==
    IF raw \in {EN, ENG} THEN PyTag(ENG) ELSE PyTag(FRA)

(***************************************************************************)
(* DatasetId                                                               *)
(***************************************************************************)
DID_DELIM == <<"-">>

ReservedChars ==
    {"-", "/", "*", "|", "[", "]", "(", ")", "{", "}", "<", ">", "?", "&",
     ":", ";", ",", "!", "^", "$", "\"", "'", " "}

Ok(v) == [err |-> "ok", val |-> Some(v)]
Raise(kind) == [err |-> kind, val |-> None]

NoReserved(s) == \A ch \in ReservedChars : ~HasChar(s, ch)

\* name.islower(), line 26
NameIsLower(name) == IsLower(name)

\* line 32: every element that is not a BCP47Tag goes through bcp47
Canonical(langs) ==
    [i \in 1..Len(langs) |->
        IF langs[i].cls = "BCP47Tag" THEN langs[i] ELSE bcp47(langs[i].s)]

AllCanonicalizable(langs) ==
    \A i \in 1..Len(langs) : langs[i].cls = "BCP47Tag" \/ Bcp47Known(langs[i].s)

\* DatasetId(group, name, version, langs): __post_init__; langs is a tuple
\* here, so the assert of line 31 passes
DatasetIdInit(group, name, version, langs) ==
    IF group = <<>> \/ name = <<>> \/ version = <<>> THEN Raise("AssertionError")
    ELSE IF ~NameIsLower(name) THEN Raise("AssertionError")
    ELSE IF ~(NoReserved(group) /\ NoReserved(version) /\ NoReserved(name))
         THEN Raise("AssertionError")
    ELSE IF ~AllCanonicalizable(langs) THEN Raise("InvalidTag")
    ELSE Ok([group |-> group, name |-> name, version |-> version,
             langs |-> Canonical(langs)])

\* DatasetId.lang_str
LangStr(d) == Join(DID_DELIM, [i \in 1..Len(d.langs) |-> d.langs[i].s])

\* DatasetId.format(delim)
Format(d, delim) == Join(delim, <<d.group, d.name, d.version, LangStr(d)>>)

\* DatasetId.parse(string, delim) that accepts any string of at least 5 segments
ParseAtLeast5(string, delim) ==
    LET parts == Split(Strip(string), delim)
    IN  IF Len(parts) < 5 THEN Raise("Exception")
        ELSE DatasetIdInit(parts[1], parts[2], parts[3],
                           <<PyStr(parts[4]), PyStr(parts[5])>>)

\* DatasetId.parse(string, delim)
Parse(string, delim) ==
    LET parts == Split(Strip(string), delim)
    IN  IF Len(parts) # 5 THEN Raise("Exception")
        ELSE DatasetIdInit(parts[1], parts[2], parts[3],
                           <<PyStr(parts[4]), PyStr(parts[5])>>)

(***************************************************************************)
(* Inputs of the DatasetId calls                                           *)
(***************************************************************************)
\* a lower-case letter, an upper-case letter, a caseless character, the
\* default delimiter (reserved) and a whitespace character that is not reserved
FieldChars == {"a", "A", "1", "-", "\t"}
Fields == StrsOver(FieldChars, MaxFieldLen)

LangIn == {PyStr(EN), PyStr(FR), PyStr(ZZ), PyTag(FRA)}
LangTuples == {<<a>> : a \in LangIn} \cup {<<a, b>> : a, b \in LangIn}

Delims == {<<"-">>, <<":">>, <<" ">>}

RawSegs == {<<>>, <<"g">>, EN}
RawPads == {<<>>, <<" ">>, <<"\t">>}
RawStrings ==
    {l \o Join(d, segs) \o r :
        l \in RawPads, r \in RawPads, d \in Delims,
        segs \in UNION {[1..k -> RawSegs] : k \in 1..MaxSegs}}

Idle == [err |-> "none", val |-> None]

InitRest ==
    /\ pc = "start"
    /\ did = Idle /\ text = None /\ parsed = None
    /\ entry = Idle /\ swap = None
    /\ exps = <<>> /\ papers = <<>> /\ last = Idle

InitId ==
    /\ \/ \E g \in Fields, n \in Fields, v \in Fields, ls \in LangTuples :
            args = [kind |-> "fields", group |-> g, name |-> n, version |-> v,
                    langs |-> ls]
       \/ \E s \in RawStrings : args = [kind |-> "string", s |-> s]
    /\ InitRest

\* DatasetId(group, name, version, langs)
NewDatasetId ==
    /\ pc = "start" /\ args.kind = "fields"
    /\ did' = DatasetIdInit(args.group, args.name, args.version, args.langs)
    /\ pc' = "built"
    /\ UNCHANGED <<args, text, parsed, entry, swap, exps, papers, last>>

\* did.format(delim)
DoFormat ==
    /\ pc = "built" /\ did.err = "ok"
    /\ \E delim \in Delims :
          text' = Some([delim |-> delim, s |-> Format(did.val[1], delim)])
    /\ pc' = "formatted"
    /\ UNCHANGED <<args, did, parsed, entry, swap, exps, papers, last>>

\* DatasetId.parse(did.format(d1), d2)
ParseFormatted ==
    /\ pc = "formatted"
    /\ \E delim \in Delims :
          parsed' = Some([s |-> text[1].s, delim |-> delim,
                          out |-> Parse(text[1].s, delim)])
    /\ pc' = "parsed"
    /\ UNCHANGED <<args, did, text, entry, swap, exps, papers, last>>

\* DatasetId.parse(string, delim) of an arbitrary string
ParseString ==
    /\ pc = "start" /\ args.kind = "string"
    /\ \E delim \in Delims :
          parsed' = Some([s |-> args.s, delim |-> delim,
                          out |-> Parse(args.s, delim)])
    /\ pc' = "parsed"
    /\ UNCHANGED <<args, did, text, entry, swap, exps, papers, last>>

NextId == NewDatasetId \/ DoFormat \/ ParseFormatted \/ ParseString

SpecId == InitId /\ [][NextId]_vars

(***************************************************************************)
(* Claims about DatasetId, checked under SpecId                            *)
(***************************************************************************)
Built == pc \in {"built", "formatted", "parsed"}

\* the segments a string splits into on a one-character delimiter, counted
\* from the occurrences of that character in the trimmed string
SegmentCount(s, delim) ==
    Cardinality({i \in 1..Len(Strip(s)) : Strip(s)[i] = delim[1]}) + 1

\* C1: for every DatasetId id constructed with exactly two languages,
\* DatasetId.parse(id.format()) with the default delimiter succeeds and
\* returns a DatasetId equal to id.
C1_RoundTripDefault ==
    (/\ pc = "parsed" /\ args.kind = "fields"
     /\ Len(did.val[1].langs) = 2
     /\ text[1].delim = DID_DELIM /\ parsed[1].delim = DID_DELIM)
    => (parsed[1].out.err = "ok" /\ parsed[1].out.val = did.val)

\* C2: parse fails with the malformed-string error (raise Exception) exactly
\* when the trimmed string has a number of delimiter-separated segments
\* other than 5; then no DatasetId is constructed.
C2_ParseRejectsExactlyNon5 ==
    parsed # None =>
        /\ (parsed[1].out.err = "Exception")
               <=> (SegmentCount(parsed[1].s, parsed[1].delim) # 5)
        /\ (parsed[1].out.err = "Exception" => parsed[1].out.val = None)

\* C2 witness: a string of 6 segments was parsed and rejected.
C2_Witness ==
    /\ parsed # None
    /\ SegmentCount(parsed[1].s, parsed[1].delim) = 6
    /\ parsed[1].out.err = "Exception"

\* the rules of the claim C3: an empty field, a reserved character in a
\* field, an upper-case character in name, a language that is not canonicalizable
C3_Violates(a) ==
    \/ a.group = <<>> \/ a.name = <<>> \/ a.version = <<>>
    \/ \E f \in {a.group, a.name, a.version} :
          \E i \in 1..Len(f) : f[i] \in ReservedChars
    \/ \E i \in 1..Len(a.name) : a.name[i] \in UpperChars
    \/ \E i \in 1..Len(a.langs) :
          a.langs[i].cls = "str" /\ ~Bcp47Known(a.langs[i].s)

\* C3: construction fails whenever one of the rules is violated, and succeeds
\* for every input that violates none, leaving langs a tuple of canonical tags.
C3_ConstructionRules ==
    (Built /\ args.kind = "fields") =>
        /\ (did.err # "ok") <=> C3_Violates(args)
        /\ did.err = "ok" =>
              \A i \in 1..Len(did.val[1].langs) :
                  did.val[1].langs[i].cls = "BCP47Tag"

\* C9: format(delim) joins group, name, version and the language tags all
\* with delim, and parse(format(id, delim), delim) returns id for every
\* delimiter and every valid two-language id.
C9_FormatParseAnyDelim ==
    (/\ pc \in {"formatted", "parsed"} /\ args.kind = "fields"
     /\ Len(did.val[1].langs) = 2)
    => /\ text[1].s =
            Join(text[1].delim,
                 <<did.val[1].group, did.val[1].name, did.val[1].version,
                   did.val[1].langs[1].s, did.val[1].langs[2].s>>)
       /\ (pc = "parsed" /\ parsed[1].delim = text[1].delim)
            => (parsed[1].out.err = "ok" /\ parsed[1].out.val = did.val)

(***************************************************************************)
(* Entry                                                                   *)
(***************************************************************************)
\* bool(x) of an Optional[str] or Optional[List[str]]: neither None nor empty
Truthy(opt) == opt # None /\ opt[1] # <<>>

ZIP == <<"z", "i", "p">>
TAR == <<"t", "a", "r">>
TARGZ == <<"t", "a", "r", ".", "g", "z">>
TGZ == <<"t", "g", "z">>
TSV == <<"t", "s", "v">>
TXT == <<"t", "x", "t">>
TMX == <<"t", "m", "x">>
OPUS_XCES == <<"o", "p", "u", "s", "_", "x", "c", "e", "s">>

\* self.ext in (...) without 'tar.gz'
IsArchiveExtNoTarGz(ext) == ext \in {ZIP, TAR, TGZ}

\* self.ext in ('zip', 'tar', 'tar.gz', 'tgz'), line 86
IsArchiveExt(ext) == ext \in {ZIP, TAR, TARGZ, TGZ}

\* self.url.split('/')[-1], line 73
OrigName(url) == LET parts == Split(url, <<"/">>) IN parts[Len(parts)]

\* the extension resolved from the url alone
ResolveExtFromUrl(a) ==
    IF Truthy(a.ext) THEN a.ext[1] ELSE a.detect[OrigName(a.url)]

\* lines 74-77: the supplied ext, else detect_extension(filename or orig_name);
\* a.detect is the answer of the extension-detection service for each name
ResolveExt(a) ==
    IF Truthy(a.ext) THEN a.ext[1]
    ELSE a.detect[IF Truthy(a.filename) THEN a.filename[1] ELSE OrigName(a.url)]

\* line 78: self.filename or f'{self.did.name}.{self.ext}'
ResolveFilename(a, ext) ==
    IF Truthy(a.filename) THEN a.filename[1] ELSE a.did.name \o <<".">> \o ext

\* lines 85-93 on the resolved ext
EntryCheck(a, ext) ==
    IF StartsWith(ext, <<".">>) THEN "AssertionError"
    ELSE IF IsArchiveExt(ext)
         THEN IF ~Truthy(a.in_paths) THEN "AssertionError"
              ELSE IF ~Truthy(a.in_ext) THEN "Exception"
              ELSE "ok"
         ELSE IF a.in_ext # Some(OPUS_XCES) /\ Truthy(a.in_paths)
              THEN "AssertionError"
              ELSE "ok"

\* Entry(did, url, filename, ext, in_paths, in_ext); did is a DatasetId here,
\* so the assert of line 69 passes; cite and cols are stored as given
EntryInit(a) ==
    LET ext == ResolveExt(a)
        err == EntryCheck(a, ext)
    IN  IF err # "ok" THEN Raise(err)
        ELSE Ok([did |-> a.did, url |-> a.url,
                 filename |-> ResolveFilename(a, ext), ext |-> ext,
                 in_paths |-> a.in_paths, in_ext |-> a.in_ext,
                 is_archive |-> IsArchiveExt(ext)])

\* tuple(reversed(langs))
Reversed(t) == [i \in 1..Len(t) |-> t[Len(t) + 1 - i]]

\* tuple(s) of a str s: its characters, each a str of length one
CharTuple(s) == [i \in 1..Len(s) |-> PyStr(<<s[i]>>)]

\* t == u on tuples: the lengths, then the elements
PyTupleEq(t, u) ==
    Len(t) = Len(u) /\ \A i \in 1..Len(t) : t[i] = u[i]

\* Entry.is_swap(langs), lines 95-98
IsSwap(e, langs) ==
    IF e.in_ext = Some(TMX) THEN FALSE
    ELSE PyTupleEq(Reversed(langs), CharTuple(LangStr(e.did)))

(***************************************************************************)
(* Inputs of the Entry calls                                               *)
(***************************************************************************)
MaxInPaths == 1    \* longest in_paths list drawn

EntryDids ==
    {DatasetIdInit(<<"g">>, <<"n">>, <<"1">>, ls).val[1] :
        ls \in {<<PyStr(FR), PyStr(EN)>>, <<PyStr(EN), PyStr(FR)>>}}

Urls == {<<"h", "/", "a">>, <<"b">>}
FilenameArgs == {None, Some(<<>>), Some(<<"f">>)}
ExtArgs ==
    {None, Some(<<>>), Some(ZIP), Some(TARGZ), Some(TSV),
     Some(<<".", "g", "z">>), Some(<<"Z", "I", "P">>)}
InPathsArgs == {None} \cup {Some(l) : l \in StrsOver({<<"p">>}, MaxInPaths)}
InExtArgs == {None, Some(<<>>), Some(TXT), Some(OPUS_XCES), Some(TMX)}

\* the names the service can be asked about, and its possible answers
DetectNames == {<<"a">>, <<"b">>, <<"f">>}
DetectExts == {TGZ, TSV, <<".", "g", "z">>}

SwapLangs == {PyTag(ENG), PyTag(FRA), PyStr(FR)}

InitEntry ==
    /\ \E d \in EntryDids, u \in Urls, f \in FilenameArgs, x \in ExtArgs,
          ip \in InPathsArgs, ie \in InExtArgs, det \in [DetectNames -> DetectExts] :
          args = [kind |-> "entry", did |-> d, url |-> u, filename |-> f,
                  ext |-> x, in_paths |-> ip, in_ext |-> ie, detect |-> det]
    /\ InitRest

\* Entry(did, url, filename, ext, in_paths, in_ext)
NewEntry ==
    /\ pc = "start"
    /\ entry' = EntryInit(args)
    /\ pc' = "built"
    /\ UNCHANGED <<args, did, text, parsed, swap, exps, papers, last>>

\* entry.is_swap(langs)
CallIsSwap ==
    /\ pc = "built" /\ entry.err = "ok"
    /\ \E l1 \in SwapLangs, l2 \in SwapLangs :
          swap' = Some([langs |-> <<l1, l2>>,
                        out |-> IsSwap(entry.val[1], <<l1, l2>>)])
    /\ pc' = "swapped"
    /\ UNCHANGED <<args, did, text, parsed, entry, exps, papers, last>>

NextEntry == NewEntry \/ CallIsSwap

SpecEntry == InitEntry /\ [][NextEntry]_vars

(***************************************************************************)
(* Claims about Entry, checked under SpecEntry                             *)
(***************************************************************************)
EntryBuilt == pc \in {"built", "swapped"}

\* the part of url after its last '/', found from the position of that '/'
LastSegment(url) ==
    LET slashes == {i \in 1..Len(url) : url[i] = "/"}
        k == IF slashes = {} THEN 0
             ELSE CHOOSE i \in slashes : \A j \in slashes : j <= i
    IN  SubSeq(url, k + 1, Len(url))

\* the extension the derivation rules of C10 give
ExpectedExt ==
    IF Truthy(args.ext) THEN args.ext[1]
    ELSE IF Truthy(args.filename) THEN args.detect[args.filename[1]]
    ELSE args.detect[LastSegment(args.url)]

ArchiveExtSet == {ZIP, TAR, TARGZ, TGZ}

\* C4: for an Entry with languages (a, b) and in_ext other than "tmx",
\* is_swap(langs) is true exactly when langs is the pair (b, a); with
\* in_ext = "tmx" it is false for every langs.
C4_IsSwapDetectsReverse ==
    pc = "swapped" =>
        LET e == entry.val[1]
        IN  IF e.in_ext = Some(TMX) THEN swap[1].out = FALSE
            ELSE swap[1].out
                   <=> (swap[1].langs = <<e.did.langs[2], e.did.langs[1]>>)

\* C5: every constructed Entry has an ext that does not begin with a dot,
\* is_archive true iff ext is one of zip, tar, tar.gz, tgz; an archive has
\* non-empty in_paths and an in_ext; a non-archive whose in_ext is not
\* opus_xces has no in_paths.
C5_EntryInvariant ==
    entry.err = "ok" =>
        LET e == entry.val[1]
        IN  /\ ~(e.ext # <<>> /\ e.ext[1] = ".")
            /\ e.is_archive <=> (e.ext \in ArchiveExtSet)
            /\ e.is_archive => (Truthy(e.in_paths) /\ Truthy(e.in_ext))
            /\ (~e.is_archive /\ e.in_ext # Some(OPUS_XCES))
                   => ~Truthy(e.in_paths)

\* C5 witness: an archive Entry whose ext came from the detection service.
C5_Witness ==
    /\ entry.err = "ok" /\ entry.val[1].is_archive
    /\ ~Truthy(args.ext) /\ entry.val[1].ext = TGZ

\* C6: an archive Entry without in_paths or without in_ext fails, with one
\* and the same error kind in both cases; a non-archive Entry with in_paths
\* and an in_ext other than opus_xces fails; a failure produces no Entry,
\* and the same inputs with the offending field corrected succeed.
C6_EntryErrors ==
    (EntryBuilt /\ ~(ExpectedExt # <<>> /\ ExpectedExt[1] = ".")) =>
        /\ (ExpectedExt \in ArchiveExtSet
              /\ (~Truthy(args.in_paths) \/ ~Truthy(args.in_ext)))
           => /\ entry.err # "ok" /\ entry.val = None
              /\ entry.err = EntryInit([args EXCEPT !.in_paths = None]).err
              /\ EntryInit([args EXCEPT !.in_paths = Some(<<(<<"p">>)>>),
                                        !.in_ext = Some(TXT)]).err = "ok"
        /\ (ExpectedExt \notin ArchiveExtSet /\ Truthy(args.in_paths)
              /\ args.in_ext # Some(OPUS_XCES))
           => /\ entry.err # "ok" /\ entry.val = None
              /\ EntryInit([args EXCEPT !.in_paths = Some(<<>>)]).err = "ok"

\* C10: ext is the supplied ext, else detect(filename) when a filename is
\* supplied, else detect(last '/'-segment of url); filename is the supplied
\* filename, else "<did.name>.<ext>" with the resolved ext; the archive
\* check is made on the resolved ext.
C10_EntryDerivation ==
    EntryBuilt =>
        /\ entry.err = "ok" =>
              /\ entry.val[1].ext = ExpectedExt
              /\ entry.val[1].filename =
                    IF Truthy(args.filename) THEN args.filename[1]
                    ELSE args.did.name \o <<".">> \o ExpectedExt
              /\ entry.val[1].is_archive <=> (ExpectedExt \in ArchiveExtSet)
        /\ (ExpectedExt \in ArchiveExtSet /\ ~Truthy(args.in_paths))
              => entry.err # "ok"

\* C10 witness: neither ext nor filename supplied, the ext detected from the
\* url's last segment is an archive ext and the filename is built from it.
C10_Witness ==
    /\ entry.err = "ok"
    /\ ~Truthy(args.ext) /\ ~Truthy(args.filename)
    /\ args.detect[<<"a">>] # args.detect[<<"f">>]
    /\ args.url = <<"h", "/", "a">>
    /\ entry.val[1].ext = TGZ
    /\ entry.val[1].filename = <<"n", ".", "t", "g", "z">>

(***************************************************************************)
(* Experiment                                                              *)
(***************************************************************************)
Range(f) == {f[i] : i \in DOMAIN f}

\* bcp47(l) of a value that is a BCP47Tag already, or of a raw str
Bcp47Any(l) == IF l.cls = "BCP47Tag" THEN l ELSE bcp47(l.s)

\* Experiment.__post_init__ that checks tests only
ExperimentInitTestsOnly(langs, train, tests) ==
    IF ~AllCanonicalizable(langs) THEN Raise("InvalidTag")
    ELSE IF \E i \in 1..Len(tests) : tests[i] = None THEN Raise("AssertionError")
    ELSE Ok([langs |-> [i \in 1..Len(langs) |-> Bcp47Any(langs[i])],
             train |-> train, tests |-> tests, papers |-> <<>>])

\* Experiment(langs, train, tests): __post_init__, lines 128-134; an element
\* of train/tests is None or Some(e) for an Entry e, and an Entry is truthy
ExperimentInit(langs, train, tests) ==
    IF ~AllCanonicalizable(langs) THEN Raise("InvalidTag")
    ELSE IF \E i \in 1..Len(tests) : tests[i] = None THEN Raise("AssertionError")
    ELSE IF \E i \in 1..Len(train) : train[i] = None THEN Raise("AssertionError")
    ELSE Ok([langs |-> [i \in 1..Len(langs) |-> Bcp47Any(langs[i])],
             train |-> train, tests |-> tests, papers |-> <<>>])

\* index.get_entry(name, langs) of the dataset index: an Entry, or EntryNotFound
IndexKnown(name) == name \in {"k1", "k2"}
IndexGet(name) == IF name = "k1" THEN Some("e1") ELSE Some("e2")

\* Experiment.make(index, langs, train, tests), lines 136-140
ExperimentMake(langs, train, tests) ==
    IF \E i \in 1..Len(train) : ~IndexKnown(train[i]) THEN Raise("EntryNotFound")
    ELSE IF \E i \in 1..Len(tests) : ~IndexKnown(tests[i]) THEN Raise("EntryNotFound")
    ELSE ExperimentInit(langs,
                        [i \in 1..Len(train) |-> IndexGet(train[i])],
                        [i \in 1..Len(tests) |-> IndexGet(tests[i])])

MaxListLen == 2    \* longest train/tests list drawn

EntryRefs == {None, Some("e1")}
EntryNames == {"k1", "u"}
ExpLangs == {<<a, b>> : a, b \in LangIn}

InitExperiment ==
    /\ \/ \E ls \in ExpLangs, tr \in StrsOver(EntryRefs, MaxListLen),
             te \in StrsOver(EntryRefs, MaxListLen) :
             args = [kind |-> "direct", langs |-> ls, train |-> tr, tests |-> te]
       \/ \E ls \in ExpLangs, tr \in StrsOver(EntryNames, MaxListLen),
             te \in StrsOver(EntryNames, MaxListLen) :
             args = [kind |-> "make", langs |-> ls, train |-> tr, tests |-> te]
    /\ InitRest

\* the call's outcome, and the Experiment it constructed on the heap
Constructed(out) ==
    /\ last' = [err |-> out.err, val |-> None]
    /\ exps' = IF out.err = "ok" THEN Append(exps, out.val[1]) ELSE exps

\* Experiment(langs, train, tests)
NewExperiment ==
    /\ pc = "start" /\ args.kind = "direct"
    /\ Constructed(ExperimentInit(args.langs, args.train, args.tests))
    /\ pc' = "built"
    /\ UNCHANGED <<args, did, text, parsed, entry, swap, papers>>

\* Experiment.make(index, langs, train, tests)
MakeExperiment ==
    /\ pc = "start" /\ args.kind = "make"
    /\ Constructed(ExperimentMake(args.langs, args.train, args.tests))
    /\ pc' = "built"
    /\ UNCHANGED <<args, did, text, parsed, entry, swap, papers>>

NextExperiment == NewExperiment \/ MakeExperiment

SpecExperiment == InitExperiment /\ [][NextExperiment]_vars

\* C8 as stated: construction fails with the assertion's error whenever an
\* element of train or tests is None, and every Experiment that exists has
\* only non-null Entries.
C8_NullEntryRaisesEmptyEntry ==
    /\ (pc = "built" /\ args.kind = "direct"
          /\ None \in Range(args.train) \cup Range(args.tests))
       => (last.err = "AssertionError" /\ exps = <<>>)
    /\ \A e \in DOMAIN exps :
          None \notin Range(exps[e].train) \cup Range(exps[e].tests)

\* C8 amended: with a None element the construction fails and no Experiment
\* is produced; the error is the assertion's when the language pair
\* canonicalizes and the tag service's otherwise; every Experiment that
\* exists has only non-null Entries.
C8_NullEntryFails ==
    /\ (pc = "built" /\ args.kind = "direct"
          /\ None \in Range(args.train) \cup Range(args.tests))
       => /\ exps = <<>>
          /\ last.err = IF \A i \in 1..Len(args.langs) :
                              args.langs[i].cls = "BCP47Tag"
                                 \/ Bcp47Known(args.langs[i].s)
                        THEN "AssertionError" ELSE "InvalidTag"
    /\ \A e \in DOMAIN exps :
          None \notin Range(exps[e].train) \cup Range(exps[e].tests)

\* C8 witness: Experiment(langs, train=[e1, None], tests=[]) with a valid
\* language pair was rejected by the assertion on train.
C8_Witness ==
    /\ pc = "built" /\ args.kind = "direct"
    /\ args.tests = <<>> /\ args.train = <<Some("e1"), None>>
    /\ last.err = "AssertionError"

(***************************************************************************)
(* Paper and the back-reference sets                                       *)
(*                                                                         *)
(* An object is its index in the heap.  A Python set is the sequence of    *)
(* its table entries [obj, hash], the hash being the one taken when the    *)
(* object was inserted; a lookup compares the hash taken now, then ==.     *)
(***************************************************************************)
MaxExps == 2       \* Experiments on the heap
MaxPapers == 2     \* Papers constructed

\* @dataclass(eq=False), line 143: hash(paper) and == are by identity
PaperHash(heap, p) == p
PaperEq(heap, p, q) == p = q

\* paper in s
SetContains(s, heap, p) ==
    \E i \in 1..Len(s) :
        s[i].hash = PaperHash(heap, p) /\ PaperEq(heap, s[i].obj, p)

\* an add that inserts without looking the element up
SetAddAlways(s, heap, p) == Append(s, [obj |-> p, hash |-> PaperHash(heap, p)])

\* s.add(paper), line 157
SetAdd(s, heap, p) ==
    IF SetContains(s, heap, p) THEN s
    ELSE Append(s, [obj |-> p, hash |-> PaperHash(heap, p)])

\* lines 156-157: for exp in self.experiments: exp.papers.add(self)
RECURSIVE Register(_, _, _, _)
Register(es, list, heap, p) ==
    IF list = <<>> THEN es
    ELSE Register([es EXCEPT ![Head(list)].papers = SetAdd(@, heap, p)],
                  Tail(list), heap, p)

\* line 155: self.langs or set(exp.langs for exp in self.experiments)
PaperLangs(es, list, langsArg) ==
    IF langsArg # None /\ langsArg[1] # {} THEN langsArg[1]
    ELSE {es[list[i]].langs : i \in 1..Len(list)}

\* Paper(name, title, url, cite, experiments, langs): the new object
PaperInit(es, name, list, langsArg) ==
    [name |-> name, title |-> "t", url |-> "u", cite |-> "c",
     experiments |-> list, langs |-> PaperLangs(es, list, langsArg)]

PoolLangs(i) ==
    IF i % 2 = 1 THEN <<PyStr(EN), PyStr(FR)>> ELSE <<PyTag(FRA), PyTag(ENG)>>

ExpLists(n) ==
    {<<>>} \cup {<<a>> : a \in 1..n} \cup {<<a, b>> : a, b \in 1..n}

PaperLangsArgs == {None, Some({}), Some({<<EN, FR>>})}

InitPaper ==
    /\ pc = "start" /\ args = [kind |-> "paper"]
    /\ did = Idle /\ text = None /\ parsed = None
    /\ entry = Idle /\ swap = None
    /\ exps = [i \in 1..MaxExps |->
                  ExperimentInit(PoolLangs(i), <<Some("e1")>>, <<>>).val[1]]
    /\ papers = <<>> /\ last = Idle

\* Paper(name, title, url, cite, experiments, langs)
NewPaper ==
    /\ Len(papers) < MaxPapers
    /\ \E list \in ExpLists(Len(exps)), la \in PaperLangsArgs :
          LET p == Len(papers) + 1
              heap == Append(papers, PaperInit(exps, "p", list, la))
          IN  /\ papers' = heap
              /\ exps' = Register(exps, list, heap, p)
              /\ last' = [err |-> "ok", val |-> Some(p)]
    /\ UNCHANGED <<args, pc, did, text, parsed, entry, swap>>

\* a caller appends an Entry to an Experiment's train list
MutateExperiment ==
    /\ \E e \in DOMAIN exps :
          /\ Some("e2") \notin Range(exps[e].train)
          /\ exps' = [exps EXCEPT ![e].train = Append(@, Some("e2"))]
    /\ UNCHANGED <<args, pc, did, text, parsed, entry, swap, papers, last>>

\* a caller assigns a field of a Paper
MutatePaper ==
    /\ \E p \in DOMAIN papers :
          /\ papers[p].name = "p"
          /\ papers' = [papers EXCEPT ![p].name = "q"]
    /\ UNCHANGED <<args, pc, did, text, parsed, entry, swap, exps, last>>

NextPaper == NewPaper \/ MutateExperiment \/ MutatePaper

SpecPaper == InitPaper /\ [][NextPaper]_vars

\* C7: after any sequence of Paper constructions and later mutations, every
\* Experiment's papers set contains exactly the Papers constructed with that
\* Experiment in their experiments list, each exactly once, and a lookup of
\* such a Paper in the set succeeds.
C7_BackReferences ==
    \A e \in DOMAIN exps :
        /\ \A p \in DOMAIN papers :
              /\ SetContains(exps[e].papers, papers, p)
                    <=> (e \in Range(papers[p].experiments))
              /\ Cardinality({i \in 1..Len(exps[e].papers) :
                                 exps[e].papers[i].obj = p})
                    = IF e \in Range(papers[p].experiments) THEN 1 ELSE 0
        /\ \A i \in 1..Len(exps[e].papers) :
              exps[e].papers[i].obj \in DOMAIN papers

\* C7 witness: two Papers built from the same arguments, each listing
\* Experiment 1 twice, after the Experiment and the first Paper were mutated.
C7_Witness ==
    /\ Len(papers) = 2
    /\ papers[1].experiments = <<1, 1>> /\ papers[2].experiments = <<1, 1>>
    /\ papers[1].name = "q"
    /\ Some("e2") \in Range(exps[1].train)
    /\ Len(exps[1].papers) = 2

====
